---- MODULE Spec2Model ----
(***************************************************************************)
(* Model of python-package/xgboost/libpath.py: find_lib_path().            *)
(*                                                                         *)
(* A path is a sequence of tokens: directory and file names interleaved    *)
(* with separator tokens, so "/usr/lib" is <<"/", "usr", "/", "lib">> and  *)
(* the empty string is <<>>.  sys.platform is a sequence of tokens too, so *)
(* that "freebsd13" (<<"freebsd", "13">>) starts with "freebsd" without    *)
(* being equal to it.  The error message is the token sequence obtained by *)
(* concatenating its pieces.                                               *)
(*                                                                         *)
(* The state is the process as find_lib_path() sees it (sys.platform,      *)
(* platform.system(), __file__, os.environ, the filesystem) and the record *)
(* of the call that has just completed (dll_path, lib_path, msg, outcome). *)
(* The function keeps nothing between calls; the record of a call is what  *)
(* its caller holds, and it is dropped as soon as the environment or the   *)
(* filesystem moves on.  calls is a history variable: how many calls have  *)
(* completed since the environment and the filesystem last changed (0, 1,  *)
(* or 2 for two or more).                                                  *)
(***************************************************************************)
EXTENDS Integers, Sequences, FiniteSets, TLC

VARIABLES sys_platform, platform_system, module_file, environ, fs,
          outcome, dll_path, lib_path, msg, calls

vars == <<sys_platform, platform_system, module_file, environ, fs,
          outcome, dll_path, lib_path, msg, calls>>

(* Bound: the number of filesystem entries (files or directories) that    *)
(* exist at once among the probed paths.                                  *)
MaxEntries == 2

----------------------------------------------------------------------------
(* Generic helpers.                                                        *)

Range(s) == {s[i] : i \in 1..Len(s)}

(* sep.join(items) on token sequences.                                     *)
RECURSIVE StrJoin(_, _)
StrJoin(sep, items) ==
    IF items = <<>> THEN <<>>
    ELSE IF Len(items) = 1 THEN items[1]
    ELSE items[1] \o sep \o StrJoin(sep, Tail(items))

(* [f(p) for p in s]                                                       *)
MapSeq(F(_), s) == [i \in 1..Len(s) |-> F(s[i])]

----------------------------------------------------------------------------
(* The interpreter and its os.path flavour.                                *)

Win32 == <<"win32">>

Platforms ==
    { Win32, <<"linux">>, <<"freebsd", "13">>, <<"emscripten">>,
      <<"darwin">>, <<"cygwin">>, <<"aix">> }

(* What platform.system() reports on an ordinary host of each platform.    *)
NativeSystem(p) ==
    CASE p = Win32 -> "Windows"
      [] p[1] = "linux" -> "Linux"
      [] p[1] = "freebsd" -> "FreeBSD"
      [] p[1] = "emscripten" -> "Emscripten"
      [] p[1] = "darwin" -> "Darwin"
      [] p[1] = "cygwin" -> "CYGWIN_NT"
      [] OTHER -> "AIX"

(* str.startswith(tuple of prefixes)                                       *)
StartsWith(s, prefixes) == s # <<>> /\ s[1] \in prefixes

(* os.sep, os.path.pardir                                                  *)
Sep == IF sys_platform = Win32 THEN "\\" ELSE "/"
Pardir == <<"..">>

(* The characters after which os.path.join adds no separator.              *)
SepToks == IF sys_platform = Win32 THEN {"\\", "/", ":"} ELSE {"/"}

IsAbs(p) == p # <<>> /\ p[1] \in (SepToks \ {":"})

(* os.path.join(a, b)                                                      *)
Join(a, b) ==
    IF IsAbs(b) THEN b
    ELSE IF a = <<>> \/ a[Len(a)] \in SepToks THEN a \o b
    ELSE a \o <<Sep>> \o b

(* os.path.join(a, b1, b2, ...)                                            *)
RECURSIVE JoinAll(_, _)
JoinAll(a, bs) == IF bs = <<>> THEN a ELSE JoinAll(Join(a, Head(bs)), Tail(bs))

HomeDir == <<Sep, "home", Sep, "u">>
Cwd == <<Sep, "work">>

(* os.path.expanduser(p)                                                   *)
ExpandUser(p) == IF p # <<>> /\ p[1] = "~" THEN HomeDir \o Tail(p) ELSE p

(* os.path.abspath(p), for paths without "." and ".." components           *)
AbsPath(p) == IF IsAbs(p) THEN p ELSE Join(Cwd, p)

(* os.path.dirname(p)                                                      *)
RECURSIVE Dirname(_)
Dirname(p) ==
    IF p = <<>> THEN <<>>
    ELSE IF p[Len(p)] \in SepToks
         THEN (IF Len(p) = 1 THEN p ELSE SubSeq(p, 1, Len(p) - 1))
    ELSE Dirname(SubSeq(p, 1, Len(p) - 1))

(* The values __file__ may have: the module is loaded from the package     *)
(* directory under the working directory.                                  *)
ModuleFiles == { <<"xgboost", Sep, "libpath.py">> }

(* sys.base_prefix                                                         *)
base_prefix == <<Sep, "py">>

(* curr_path, line 25                                                      *)
curr_path == Dirname(AbsPath(ExpandUser(module_file)))

----------------------------------------------------------------------------
(* os.environ: a function from the names that are set to their values.     *)

LIBRARY_PATH == "XGBOOST_LIBRARY_PATH"
BUILD_DOC == "XGBOOST_BUILD_DOC"

EnvNames == {LIBRARY_PATH, BUILD_DOC}

CustomDir == <<"/", "opt", "/", "custom">>

(* The values the surrounding process gives each variable.                 *)
EnvValues(name) ==
    IF name = LIBRARY_PATH THEN {CustomDir, curr_path}
    ELSE {<<>>, <<"0">>, <<"1">>}

EnvStates ==
    UNION { { e \in [S -> UNION {EnvValues(n) : n \in EnvNames}] :
                \A n \in S : e[n] \in EnvValues(n) } : S \in SUBSET EnvNames }

(* Variant: only the string "1" counts as true. *)
StrIsOne(s) == s = <<"1">>

(* truth value of a str                                                    *)
StrTruthy(s) == s # <<>>

(* Variant: the flag counts as soon as the variable is set. *)
BuildDocIsSet(env) == BUILD_DOC \in DOMAIN env

(* os.environ.get("XGBOOST_BUILD_DOC", False), as a truth value            *)
BuildDocFlag(env) == IF BUILD_DOC \in DOMAIN env THEN StrTruthy(env[BUILD_DOC]) ELSE FALSE

----------------------------------------------------------------------------
(* The filesystem: a function from the paths that exist to what they are.  *)

Kinds == {"file", "dir"}

(* os.path.exists(p), os.path.isfile(p)                                    *)
PathExists(f, p) == p \in DOMAIN f
IsFile(f, p) == p \in DOMAIN f /\ f[p] = "file"

----------------------------------------------------------------------------
(* find_lib_path(), lines 25-81.                                           *)

(* lines 26-34 *)
BuiltinDirs ==
    << Join(curr_path, <<"lib">>),
       JoinAll(curr_path, <<Pardir, Pardir, <<"lib">>>>),
       Join(base_prefix, <<"lib">>) >>

(* lines 44-50 *)
WindowsDirs ==
    << Join(base_prefix, <<"bin">>),
       Join(base_prefix, <<"Library">>),
       JoinAll(base_prefix, <<<<"Library">>, <<"bin">>>>),
       JoinAll(base_prefix, <<<<"Library">>, <<"lib">>>>),
       JoinAll(base_prefix, <<<<"Library">>, <<"mingw-w64">>>>),
       JoinAll(base_prefix, <<<<"Library">>, <<"mingw-w64">>, <<"bin">>>>),
       JoinAll(base_prefix, <<<<"Library">>, <<"mingw-w64">>, <<"lib">>>>) >>

(* Variant: the override replaces the built-in directories. *)
WithCustomOnly(dirs, env) ==
    IF LIBRARY_PATH \in DOMAIN env
    THEN <<Join(env[LIBRARY_PATH], <<"lib">>)>>
    ELSE dirs

(* lines 36-38: dll_path after the override has been looked at *)
WithCustom(dirs, env) ==
    IF LIBRARY_PATH \in DOMAIN env
    THEN dirs \o <<Join(env[LIBRARY_PATH], <<"lib">>)>>
    ELSE dirs

(* Variant: the Windows roots are also added on cygwin. *)
WithWindowsFamily(dirs) ==
    IF sys_platform \in {Win32, <<"cygwin">>} THEN dirs \o WindowsDirs ELSE dirs

(* lines 40-52: dll_path after the Windows roots have been added *)
WithWindows(dirs) ==
    IF sys_platform = Win32 THEN dirs \o WindowsDirs ELSE dirs

(* The base directories, in the order the code lists them. *)
BaseDirs(env) == WithWindows(WithCustom(BuiltinDirs, env))

(* lines 53-59: the platform-family switch *)
PlatformMap(dirs) ==
    IF sys_platform = Win32
    THEN MapSeq(LAMBDA p : Join(p, <<"xgboost.dll">>), dirs)
    ELSE IF StartsWith(sys_platform, {"linux", "freebsd", "emscripten"})
    THEN MapSeq(LAMBDA p : Join(p, <<"libxgboost.so">>), dirs)
    ELSE IF sys_platform = <<"darwin">>
    THEN MapSeq(LAMBDA p : Join(p, <<"libxgboost.dylib">>), dirs)
    ELSE IF sys_platform = <<"cygwin">>
    THEN MapSeq(LAMBDA p : Join(p, <<"cygxgboost.dll">>), dirs)
    ELSE dirs

(* lines 60-61 *)
OS400Map(paths) ==
    IF platform_system = "OS400"
    THEN MapSeq(LAMBDA p : Join(p, <<"libxgboost.so">>), paths)
    ELSE paths

(* dll_path as it stands at line 63 *)
DllPath(env) == OS400Map(PlatformMap(BaseDirs(env)))

(* Variant: the filter tests existence only. *)
LibPathExisting(dll, f) == SelectSeq(dll, LAMBDA p : PathExists(f, p))

(* Variant: the found paths are appended to the list of the previous call. *)
LibPathAppended(dll, f) ==
    lib_path \o SelectSeq(dll, LAMBDA p : PathExists(f, p) /\ IsFile(f, p))

(* line 63 *)
LibPath(dll, f) == SelectSeq(dll, LAMBDA p : PathExists(f, p) /\ IsFile(f, p))

(* line 66 *)
ShouldRaise(found, env) == found = <<>> /\ ~BuildDocFlag(env)

Link == <<"https://xgboost.readthedocs.io/en/stable/install.html">>

(* Variant: the message lists the paths found instead of the paths tried. *)
MessageOfFound(dll) ==
    <<"Cannot find XGBoost Library in the candidate path.  ">>
    \o <<"List of candidates:\n- ">>
    \o StrJoin(<<"\n- ">>, SelectSeq(dll, LAMBDA p : IsFile(fs, p)))
    \o <<"\nXGBoost Python package path: ">>
    \o curr_path
    \o <<"\nsys.base_prefix: ">>
    \o base_prefix
    \o <<"\nSee: ">>
    \o Link
    \o <<" for installing XGBoost.">>

(* lines 68-79 *)
Message(dll) ==
    <<"Cannot find XGBoost Library in the candidate path.  ">>
    \o <<"List of candidates:\n- ">>
    \o StrJoin(<<"\n- ">>, dll)
    \o <<"\nXGBoost Python package path: ">>
    \o curr_path
    \o <<"\nsys.base_prefix: ">>
    \o base_prefix
    \o <<"\nSee: ">>
    \o Link
    \o <<" for installing XGBoost.">>

(* Every path find_lib_path() can probe on this host, whatever the override. *)
Probes ==
    UNION { Range(DllPath([n \in {LIBRARY_PATH} |-> v])) :
              v \in EnvValues(LIBRARY_PATH) }

----------------------------------------------------------------------------
(* The state machine.                                                      *)

NoCall == /\ outcome' = "none"
          /\ dll_path' = <<>>
          /\ lib_path' = <<>>
          /\ msg' = <<>>
          /\ calls' = 0

Init ==
    /\ sys_platform \in Platforms
    /\ platform_system \in {NativeSystem(sys_platform), "OS400"}
    /\ module_file \in ModuleFiles
    /\ environ \in EnvStates
    /\ fs = << >>
    /\ outcome = "none"
    /\ dll_path = <<>>
    /\ lib_path = <<>>
    /\ msg = <<>>
    /\ calls = 0

(* A call of find_lib_path(): it returns lib_path or raises               *)
(* XGBoostLibraryNotFound(msg).                                            *)
FindLibPath ==
    LET dll == DllPath(environ)
        found == LibPath(dll, fs)
    IN  /\ dll_path' = dll
        /\ IF ShouldRaise(found, environ)
           THEN /\ outcome' = "raised"
                /\ msg' = Message(dll)
                /\ lib_path' = <<>>
           ELSE /\ outcome' = "returned"
                /\ msg' = <<>>
                /\ lib_path' = found
        /\ calls' = IF calls < 2 THEN calls + 1 ELSE calls
        /\ UNCHANGED <<sys_platform, platform_system, module_file, environ, fs>>

(* The surrounding process sets or deletes an environment variable. *)
SetEnv ==
    \E n \in EnvNames : \E v \in EnvValues(n) :
        /\ ~(n \in DOMAIN environ /\ environ[n] = v)
        /\ environ' = [m \in DOMAIN environ \cup {n} |->
                          IF m = n THEN v ELSE environ[m]]
        /\ NoCall
        /\ UNCHANGED <<sys_platform, platform_system, module_file, fs>>

DelEnv ==
    \E n \in DOMAIN environ :
        /\ environ' = [m \in DOMAIN environ \ {n} |-> environ[m]]
        /\ NoCall
        /\ UNCHANGED <<sys_platform, platform_system, module_file, fs>>

(* Something creates a file or a directory at a probed path, or removes it. *)
Create ==
    \E p \in Probes \ DOMAIN fs : \E k \in Kinds :
        /\ Cardinality(DOMAIN fs) < MaxEntries
        /\ fs' = [q \in DOMAIN fs \cup {p} |-> IF q = p THEN k ELSE fs[q]]
        /\ NoCall
        /\ UNCHANGED <<sys_platform, platform_system, module_file, environ>>

Remove ==
    \E p \in DOMAIN fs :
        /\ fs' = [q \in DOMAIN fs \ {p} |-> fs[q]]
        /\ NoCall
        /\ UNCHANGED <<sys_platform, platform_system, module_file, environ>>

Next == FindLibPath \/ SetEnv \/ DelEnv \/ Create \/ Remove

Spec == Init /\ [][Next]_vars

Called == outcome # "none"

TypeOK ==
    /\ sys_platform \in Platforms
    /\ module_file \in ModuleFiles
    /\ environ \in EnvStates
    /\ DOMAIN fs \subseteq Probes
    /\ Cardinality(DOMAIN fs) <= MaxEntries
    /\ outcome \in {"none", "returned", "raised"}
    /\ calls \in 0..2
    /\ Called <=> calls > 0

----------------------------------------------------------------------------
(* Vocabulary of the properties, stated on the state alone.                *)

IsPrefix(a, b) == Len(a) <= Len(b) /\ SubSeq(b, 1, Len(a)) = a

RemoveAt(s, i) == SubSeq(s, 1, i - 1) \o SubSeq(s, i + 1, Len(s))

(* The filesystem holds an entry of kind k at path p. *)
OnDisk(p, k) == p \in DOMAIN fs /\ fs[p] = k

(* The positions of the call's candidate list that are regular files. *)
FilePositions == {i \in 1..Len(dll_path) : OnDisk(dll_path[i], "file")}

HasOverride == LIBRARY_PATH \in DOMAIN environ

(* XGBOOST_BUILD_DOC is unset or the empty string. *)
DocOff == BUILD_DOC \notin DOMAIN environ \/ environ[BUILD_DOC] = <<>>

(* The position of the first occurrence of pat in hay at or after from, or 0. *)
RECURSIVE FindAt(_, _, _)
FindAt(hay, pat, from) ==
    IF from + Len(pat) - 1 > Len(hay) THEN 0
    ELSE IF SubSeq(hay, from, from + Len(pat) - 1) = pat THEN from
    ELSE FindAt(hay, pat, from + 1)

(* The patterns occur in hay one after the other, in the order given. *)
RECURSIVE InOrderFrom(_, _, _)
InOrderFrom(hay, pats, from) ==
    IF pats = <<>> THEN TRUE
    ELSE LET at == FindAt(hay, Head(pats), from)
         IN  at # 0 /\ InOrderFrom(hay, Tail(pats), at + Len(Head(pats)))

----------------------------------------------------------------------------
(* C1: when at least one candidate is a regular file, the call returns    *)
(* without error whatever XGBOOST_BUILD_DOC is, and the returned list is   *)
(* exactly the candidates that are regular files (directories excluded),   *)
(* in the priority order own-dir/lib, own-dir/../../lib, prefix/lib, then  *)
(* override/lib if set, then the Windows roots if on Windows.              *)
C1_RootOrder ==
    LET k == IF HasOverride THEN 4 ELSE 3
    IN  /\ Len(dll_path) >= k
        /\ IsPrefix(curr_path \o <<Sep, "lib">>, dll_path[1])
        /\ IsPrefix(curr_path \o <<Sep, "..", Sep, "..", Sep, "lib">>, dll_path[2])
        /\ IsPrefix(base_prefix \o <<Sep, "lib">>, dll_path[3])
        /\ HasOverride => IsPrefix(environ[LIBRARY_PATH] \o <<Sep, "lib">>, dll_path[4])
        /\ \A j \in (k + 1)..Len(dll_path) :
              sys_platform = Win32 /\ IsPrefix(base_prefix \o <<Sep>>, dll_path[j])

C2_RaisesWhenNothingFound ==
    Called =>
        /\ (FilePositions = {} /\ DocOff) => outcome = "raised"
        /\ (outcome = "returned" /\ lib_path = <<>>) => ~DocOff

(* The flag is set but empty, the only entry on disk is a directory, and   *)
(* the call raised.                                                        *)
C2_Witness ==
    /\ outcome = "raised"
    /\ BUILD_DOC \in DOMAIN environ
    /\ environ[BUILD_DOC] = <<>>
    /\ \E i \in 1..Len(dll_path) : OnDisk(dll_path[i], "dir")

(* C3: when no candidate is a regular file and XGBOOST_BUILD_DOC is truthy *)
(* (any non-empty string), the call returns the empty list and raises no   *)
(* error.                                                                  *)
C3_DocBuildReturnsEmpty ==
    (Called /\ FilePositions = {} /\ ~DocOff) =>
        /\ outcome = "returned"
        /\ lib_path = <<>>
        /\ msg = <<>>

C3_Witness ==
    /\ outcome = "returned"
    /\ lib_path = <<>>
    /\ BUILD_DOC \in DOMAIN environ
    /\ environ[BUILD_DOC] = <<"1">>
    /\ FilePositions = {}

LibraryNames == {"xgboost.dll", "libxgboost.so", "libxgboost.dylib", "cygxgboost.dll"}

(* C6: on a host that is not OS400, for every platform identifier, every   *)
(* base directory is mapped to a candidate by appending exactly one        *)
(* library filename, so no candidate is a bare base directory.             *)
C6_FilenameMappingExhaustive ==
    (Called /\ platform_system # "OS400") =>
        /\ Len(dll_path) = Len(BaseDirs(environ))
        /\ \A i \in 1..Len(dll_path) :
              \E name \in LibraryNames :
                  dll_path[i] = BaseDirs(environ)[i] \o <<Sep, name>>

(* The Windows roots as the claim lists them, and as lines 44-50 list them. *)
C7_ClaimedRoots ==
    << base_prefix,
       base_prefix \o <<Sep, "Library">>,
       base_prefix \o <<Sep, "Library", Sep, "bin">>,
       base_prefix \o <<Sep, "Library", Sep, "lib">>,
       base_prefix \o <<Sep, "Library", Sep, "mingw-w64">>,
       base_prefix \o <<Sep, "Library", Sep, "mingw-w64", Sep, "bin">>,
       base_prefix \o <<Sep, "Library", Sep, "mingw-w64", Sep, "lib">> >>

C7_ListedRoots ==
    [C7_ClaimedRoots EXCEPT ![1] = base_prefix \o <<Sep, "bin">>]

(* C7 as stated: on Windows and on no other platform, the base-directory   *)
(* list is extended after the built-in and override roots with the prefix  *)
(* itself, <prefix>/Library, <prefix>/Library/bin, <prefix>/Library/lib,   *)
(* <prefix>/Library/mingw-w64, <prefix>/Library/mingw-w64/bin and          *)
(* <prefix>/Library/mingw-w64/lib, each with xgboost.dll appended.         *)
C7_Original ==
    Called =>
        LET k == IF HasOverride THEN 4 ELSE 3
        IN  IF sys_platform = Win32
            THEN /\ Len(dll_path) = k + 7
                 /\ \A j \in 1..7 :
                       IsPrefix(C7_ClaimedRoots[j] \o <<Sep, "xgboost.dll">>,
                                dll_path[k + j])
            ELSE Len(dll_path) = k

(* C7 amended: the first of the seven Windows roots is <prefix>/bin, not   *)
(* the prefix itself; the other six, the order, the position after the     *)
(* built-in and override roots and the restriction to Windows are as       *)
(* stated.  Each root gets xgboost.dll appended, and on an OS400 host      *)
(* libxgboost.so is appended after that, as it is to every candidate.      *)
C7_WindowsRoots ==
    Called =>
        LET k == IF HasOverride THEN 4 ELSE 3
            os400 == IF platform_system = "OS400"
                     THEN <<Sep, "libxgboost.so">> ELSE <<>>
        IN  IF sys_platform = Win32
            THEN /\ Len(dll_path) = k + 7
                 /\ \A j \in 1..7 :
                       dll_path[k + j] =
                           C7_ListedRoots[j] \o <<Sep, "xgboost.dll">> \o os400
            ELSE Len(dll_path) = k

(* On Windows with the override set, the library is found only under the   *)
(* first and the last Windows root.                                        *)
C7_Witness ==
    /\ outcome = "returned"
    /\ sys_platform = Win32
    /\ HasOverride
    /\ Len(dll_path) = 11
    /\ lib_path = <<dll_path[5], dll_path[11]>>

(* C8: whenever the call raises XGBoostLibraryNotFound, the message holds  *)
(* every candidate path that was tried, in candidate order, the resolved   *)
(* package directory, sys.base_prefix and the link to the installation     *)
(* documentation.                                                          *)
C8_MessageListsEverything ==
    outcome = "raised" =>
        /\ Len(dll_path) >= 3
        /\ InOrderFrom(msg, dll_path \o <<curr_path, base_prefix, Link>>, 1)

(* A call on Windows with the override set raised: eleven candidates. *)
C8_Witness ==
    /\ outcome = "raised"
    /\ Len(dll_path) = 11
    /\ \E i \in 1..Len(dll_path) : OnDisk(dll_path[i], "dir")

(* C9: a call changes neither the environment nor the filesystem, and a    *)
(* call that follows another call with nothing changed in between has the  *)
(* same outcome: the same returned list, or the same error and message.    *)
C9_CallsAreIndependent ==
    [][ outcome' # "none" =>
          /\ environ' = environ
          /\ fs' = fs
          /\ outcome # "none" =>
                /\ outcome' = outcome
                /\ lib_path' = lib_path
                /\ msg' = msg
                /\ dll_path' = dll_path ]_vars

(* A second call in a row has returned a library that is on disk. *)
C9_Witness ==
    /\ calls = 2
    /\ outcome = "returned"
    /\ lib_path # <<>>

(* C10: the <system-base-prefix>/lib candidate is the last option tried:   *)
(* no candidate from another root comes after it in the candidate list,    *)
(* for every platform and every setting of XGBOOST_LIBRARY_PATH.           *)
C10_SystemPrefixIsLast ==
    Called =>
        \A i, j \in 1..Len(dll_path) :
            (IsPrefix(base_prefix \o <<Sep, "lib">>, dll_path[i]) /\ i < j) =>
                IsPrefix(base_prefix \o <<Sep, "lib">>, dll_path[j])

====
